---- MODULE Spec2Model ----
(***************************************************************************)
(* Model of investor_follow_tracker/scraping/infinite_scroll.py:           *)
(* load_everything (the scroll / settle / progress-check loop) and scrape  *)
(* (the per-URL driver that opens a page, runs the loop, extracts the      *)
(* names, accumulates rows, then writes the CSV and pushes to the sheet).  *)
(***************************************************************************)
EXTENDS Integers, Sequences, FiniteSets, TLC

\* ------------------------------------------------------------ bounds
\* number of URLs in START_URLS
NTargets == 2
\* largest value a locator(...).count() measurement can return
MaxCount == 1
\* largest number of texts all_inner_texts() can return for one page
MaxItems == 3

\* ------------------------------------------------- program constants
STALL_LIMIT == 4
MAX_SCROLLS == 300
TODAY == "TODAY"

START_URLS == [t \in 1..NTargets |-> t]

Counts == 0..MaxCount

\* what the spinner can do during one wait: never attach within the first
\* bounded wait, attach and detach, attach and stay past the second wait
WaiterOutcomes == {"never_attached", "attached_detached", "attached_stuck"}

\* ------------------------------------------------------- page texts
\* sample inner texts: "A\nF", " B ", "C", "\nD", " E \nF"
RawPool ==
  << <<"A", "\n", "F">>,
     <<" ", "B", " ">>,
     <<"C">>,
     <<"\n", "D">>,
     <<" ", "E", " ", "\n", "F">> >>

\* the texts under FULL_SELECTOR of a URL's page, in DOM order, when j
\* of them are rendered
Rendered(url, j) ==
  [k \in 1..j |-> RawPool[((url + k - 2) % Len(RawPool)) + 1]]

\* ---------------------------------------------------- str.strip / split
IsSpace(c) == c \in {" ", "\n"}

RECURSIVE LStrip(_)
LStrip(s) ==
  IF s # <<>> /\ IsSpace(Head(s)) THEN LStrip(Tail(s)) ELSE s

RECURSIVE RStrip(_)
RStrip(s) ==
  IF s # <<>> /\ IsSpace(s[Len(s)]) THEN RStrip(SubSeq(s, 1, Len(s) - 1)) ELSE s

\* n.strip()
Strip(s) == RStrip(LStrip(s))

\* n.split("\n")[0]
RECURSIVE SplitFirst(_)
SplitFirst(s) ==
  IF s = <<>> \/ Head(s) = "\n" THEN <<>> ELSE <<Head(s)>> \o SplitFirst(Tail(s))

\* one element of clean_names
CleanName(n) == SplitFirst(Strip(n))

\* ------------------------------------------------------ scroll trigger
\* what the script of ctx.evaluate can meet in the document:
\*   prefixRow   an element with id^="profilePagedListComponent" exists
\*   itemRow     an element matching ITEM_SELECTOR exists
\*   firstIsItem the first element with that id prefix matches ITEM_SELECTOR
\*   ancestor    the walk up from that first element finds a scrollable one
DomShapes ==
  { d \in [prefixRow : BOOLEAN, itemRow : BOOLEAN, firstIsItem : BOOLEAN,
           ancestor : BOOLEAN] :
      /\ d.itemRow => d.prefixRow
      /\ d.firstIsItem => d.itemRow
      /\ d.ancestor => d.prefixRow }

\* the element the script calls scrollBy on: none when querySelector finds
\* no firstRow, else the scrollable ancestor or document.scrollingElement
ScrollTrigger(d) ==
  IF ~d.prefixRow THEN "noop"
  ELSE IF d.ancestor THEN "ancestor" ELSE "scrollingElement"

\* no ctx.evaluate since the last spinner wait started
NoEffect ==
  [dom |-> [prefixRow |-> FALSE, itemRow |-> FALSE, firstIsItem |-> FALSE,
            ancestor |-> FALSE],
   box |-> "none"]

\* ------------------------------------------------------------- state
VARIABLES
  pc,           \* position of scrape / load_everything
  url_idx,      \* index in START_URLS of the URL being processed
  pages,        \* per URL: "none", "open", "closed" (page.close() called)
  first_batch,  \* scrape: first_batch (-1 before the first measurement)
  stalled,      \* load_everything: stalled
  seen,         \* load_everything: seen
  iteration,    \* load_everything: passes of the for loop started
  loopState,    \* "IDLE", "RUNNING", "STALL_EXIT", "CAP_EXIT"
  waited,       \* spinner outcome of the current pass ("none" outside)
  names,        \* scrape: names
  clean_names,  \* scrape: clean_names
  all_rows,     \* scrape: all_rows
  csv,          \* rows written to the CSV file (<<>> before the write)
  csv_writes,   \* number of writes of the CSV file
  sheet,        \* rows handed to push_to_gsheet
  pushes,       \* number of calls of push_to_gsheet
  scrolls,      \* history: scroll evaluations on the current page
  lastMeasured, \* history: last count measured in the loop (-1: none)
  runLen,       \* history: length of the trailing run of equal measurements
  extracted,    \* history: per URL, the texts all_inner_texts() returned
  scrollEffect  \* history: document met and element scrolled by the last
                \* ctx.evaluate, kept until the spinner wait starts

vars == << pc, url_idx, pages, first_batch, stalled, seen, iteration,
           loopState, waited, names, clean_names, all_rows, csv, csv_writes,
           sheet, pushes, scrolls, lastMeasured, runLen, extracted,
           scrollEffect >>

scrapeVars == << url_idx, pages, first_batch, names, clean_names, all_rows,
                 csv, csv_writes, sheet, pushes, extracted >>

loopVars == << stalled, seen, iteration, loopState, waited, scrolls,
               lastMeasured, runLen, scrollEffect >>

Init ==
  /\ pc = IF NTargets >= 1 THEN "new_page" ELSE "write_csv"
  /\ url_idx = 1
  /\ pages = [t \in 1..NTargets |-> "none"]
  /\ first_batch = -1
  /\ stalled = 0
  /\ seen = -1
  /\ iteration = 0
  /\ loopState = "IDLE"
  /\ waited = "none"
  /\ names = <<>>
  /\ clean_names = <<>>
  /\ all_rows = <<>>
  /\ csv = <<>>
  /\ csv_writes = 0
  /\ sheet = <<>>
  /\ pushes = 0
  /\ scrolls = 0
  /\ lastMeasured = -1
  /\ runLen = 0
  /\ extracted = [t \in 1..NTargets |-> <<>>]
  /\ scrollEffect = NoEffect

\* ------------------------------------------------------------ scrape
\* page = await context.new_page()
NewPage ==
  /\ pc = "new_page"
  /\ pages' = [pages EXCEPT ![url_idx] = "open"]
  /\ scrolls' = 0
  /\ pc' = "goto"
  /\ UNCHANGED << url_idx, first_batch, names, clean_names, all_rows, csv,
                  csv_writes, sheet, pushes, extracted >>
  /\ UNCHANGED << stalled, seen, iteration, loopState, waited,
                  lastMeasured, runLen, scrollEffect >>

\* await page.goto(url, ..., timeout=70000): returns, or raises on timeout
\* (nothing in scrape catches it)
Goto ==
  /\ pc = "goto"
  /\ \E ok \in BOOLEAN : pc' = IF ok THEN "wait_selector" ELSE "failed"
  /\ UNCHANGED << scrapeVars, loopVars >>

\* await page.wait_for_selector(..., state="attached", timeout=15_000)
WaitForSelector ==
  /\ pc = "wait_selector"
  /\ \E ok \in BOOLEAN : pc' = IF ok THEN "first_batch" ELSE "failed"
  /\ UNCHANGED << scrapeVars, loopVars >>

\* variant: the zero test never fires
ZeroBatch_Never(c) == FALSE

\* if first_batch == 0: sys.exit(msg)
ZeroBatch(c) == c = 0

\* variant: a zero first batch leaves the for loop instead of exiting
FirstBatch_BreakOnZero ==
  /\ pc = "first_batch"
  /\ \E c \in Counts :
       /\ first_batch' = c
       /\ pc' = IF ZeroBatch(c) THEN "write_csv" ELSE "load_enter"
  /\ UNCHANGED << url_idx, pages, names, clean_names, all_rows, csv,
                  csv_writes, sheet, pushes, extracted >>
  /\ UNCHANGED loopVars

\* first_batch = await page.locator(ITEM_SELECTOR).count(), then the test
FirstBatch ==
  /\ pc = "first_batch"
  /\ \E c \in Counts :
       /\ first_batch' = c
       /\ pc' = IF ZeroBatch(c) THEN "aborted" ELSE "load_enter"
  /\ UNCHANGED << url_idx, pages, names, clean_names, all_rows, csv,
                  csv_writes, sheet, pushes, extracted >>
  /\ UNCHANGED loopVars

\* ---------------------------------------------------- load_everything
\* variant: the range test off by one
InRange_Inclusive(i) == i <= MAX_SCROLLS

\* range(MAX_SCROLLS) has another value after i passes
InRange(i) == i < MAX_SCROLLS

\* variant: seen starts at the count scrape measured
LoadEnter_SeedSeen ==
  /\ pc = "load_enter"
  /\ stalled' = 0
  /\ seen' = first_batch
  /\ iteration' = 0
  /\ waited' = "none"
  /\ lastMeasured' = -1
  /\ runLen' = 0
  /\ IF InRange(0)
       THEN loopState' = "RUNNING" /\ pc' = "scroll"
       ELSE loopState' = "CAP_EXIT" /\ pc' = "loop_exit"
  /\ UNCHANGED << scrolls, scrollEffect >>
  /\ UNCHANGED scrapeVars

\* stalled, seen = 0, -1 and the first test of the for loop
LoadEnter ==
  /\ pc = "load_enter"
  /\ stalled' = 0
  /\ seen' = -1
  /\ iteration' = 0
  /\ waited' = "none"
  /\ lastMeasured' = -1
  /\ runLen' = 0
  /\ IF InRange(0)
       THEN loopState' = "RUNNING" /\ pc' = "scroll"
       ELSE loopState' = "CAP_EXIT" /\ pc' = "loop_exit"
  /\ UNCHANGED << scrolls, scrollEffect >>
  /\ UNCHANGED scrapeVars

\* for _ in range(MAX_SCROLLS): await ctx.evaluate(<scroll one viewport>)
Scroll ==
  /\ pc = "scroll"
  /\ iteration' = iteration + 1
  /\ scrolls' = scrolls + 1
  /\ \E d \in DomShapes : scrollEffect' = [dom |-> d, box |-> ScrollTrigger(d)]
  /\ pc' = "wait"
  /\ UNCHANGED << stalled, seen, loopState, waited, lastMeasured, runLen >>
  /\ UNCHANGED scrapeVars

\* the exception the two wait_for calls end with
WaitRaises(o) ==
  CASE o = "never_attached"    -> "PWTimeout"
    [] o = "attached_detached" -> "none"
    [] o = "attached_stuck"    -> "PWTimeout"

\* variant: the handler catches nothing
Caught_Nothing(exc) == FALSE

\* except PWTimeout: pass
Caught(exc) == exc = "PWTimeout"

\* variant: a timed-out wait is tried again
Wait_RetryOnTimeout ==
  /\ pc = "wait"
  /\ \E o \in WaiterOutcomes :
       /\ waited' = o
       /\ pc' = IF WaitRaises(o) = "none" THEN "settle" ELSE "wait"
  /\ scrollEffect' = NoEffect
  /\ UNCHANGED << stalled, seen, iteration, loopState, scrolls,
                  lastMeasured, runLen >>
  /\ UNCHANGED scrapeVars

\* variant: the debounce is skipped when a wait timed out
Wait_NoSettleOnTimeout ==
  /\ pc = "wait"
  /\ \E o \in WaiterOutcomes :
       /\ waited' = o
       /\ pc' = IF WaitRaises(o) = "none" THEN "settle" ELSE "check"
  /\ scrollEffect' = NoEffect
  /\ UNCHANGED << stalled, seen, iteration, loopState, scrolls,
                  lastMeasured, runLen >>
  /\ UNCHANGED scrapeVars

\* try: wait_for(attached); wait_for(detached)  except PWTimeout: pass
Wait ==
  /\ pc = "wait"
  /\ \E o \in WaiterOutcomes :
       /\ waited' = o
       /\ pc' = IF WaitRaises(o) = "none" \/ Caught(WaitRaises(o))
                  THEN "settle" ELSE "failed"
  /\ scrollEffect' = NoEffect
  /\ UNCHANGED << stalled, seen, iteration, loopState, scrolls,
                  lastMeasured, runLen >>
  /\ UNCHANGED scrapeVars

\* await ctx.wait_for_timeout(500)
Settle ==
  /\ pc = "settle"
  /\ pc' = "check"
  /\ UNCHANGED loopVars
  /\ UNCHANGED scrapeVars

\* variant: the counter restarts at 1 on progress
NextStalled_ResetToOne(new_seen, sn, st) == IF new_seen = sn THEN st + 1 ELSE 1

\* variant: only a larger count is progress
NextStalled_OnlyIncrease(new_seen, sn, st) == IF new_seen > sn THEN 0 ELSE st + 1

\* variant: the counter is not reset on progress
NextStalled_NoReset(new_seen, sn, st) == IF new_seen = sn THEN st + 1 ELSE st

\* if new_seen == seen: stalled += 1  else: seen, stalled = new_seen, 0
NextStalled(new_seen, sn, st) == IF new_seen = sn THEN st + 1 ELSE 0

\* variant: seen is never updated
NextSeen_Stale(new_seen, sn) == sn

\* variant: seen only ever grows
NextSeen_KeepMax(new_seen, sn) == IF new_seen > sn THEN new_seen ELSE sn

NextSeen(new_seen, sn) == IF new_seen = sn THEN sn ELSE new_seen

\* variant: the break test with > for >=
Breaks_Late(new_seen, sn, st_new) == new_seen = sn /\ st_new > STALL_LIMIT

\* if stalled >= STALL_LIMIT: break   (inside the new_seen == seen branch,
\* st_new is stalled after the increment)
Breaks(new_seen, sn, st_new) == new_seen = sn /\ st_new >= STALL_LIMIT

\* new_seen = await ctx.locator(ITEM_SELECTOR).count(), the comparison,
\* and the end of the pass: break, next pass, or range exhausted
ProgressCheck ==
  /\ pc = "check"
  /\ \E new_seen \in Counts :
       /\ stalled' = NextStalled(new_seen, seen, stalled)
       /\ seen' = NextSeen(new_seen, seen)
       /\ runLen' = IF new_seen = lastMeasured THEN runLen + 1 ELSE 1
       /\ lastMeasured' = new_seen
       /\ IF Breaks(new_seen, seen, NextStalled(new_seen, seen, stalled))
            THEN loopState' = "STALL_EXIT" /\ pc' = "loop_exit"
            ELSE IF InRange(iteration)
                   THEN loopState' = "RUNNING" /\ pc' = "scroll"
                   ELSE loopState' = "CAP_EXIT" /\ pc' = "loop_exit"
  /\ waited' = "none"
  /\ UNCHANGED << iteration, scrolls, scrollEffect >>
  /\ UNCHANGED scrapeVars

\* load_everything returns None: its locals, and the history of its
\* measurements, are gone
LoadReturn ==
  /\ pc = "loop_exit"
  /\ stalled' = 0
  /\ seen' = -1
  /\ iteration' = 0
  /\ lastMeasured' = -1
  /\ runLen' = 0
  /\ pc' = "extract"
  /\ UNCHANGED << loopState, waited, scrolls, scrollEffect >>
  /\ UNCHANGED scrapeVars

\* -------------------------------------------------- scrape, continued
\* clean_names = [n.strip().split("\n")[0] for n in names]
CleanNames(ns) == [k \in 1..Len(ns) |-> CleanName(ns[k])]

\* run_rows = [[url, name, TODAY] for name in names]
RunRows(url, ns) == [k \in 1..Len(ns) |-> << url, ns[k], TODAY >>]

\* variant: the new rows go in front
Extend_Prepend(rows, run_rows) == run_rows \o rows

\* all_rows.extend(run_rows)
Extend(rows, run_rows) == rows \o run_rows

\* variant: after a cap exit the rows of the page are not appended
Extract_SkipOnCap ==
  /\ pc = "extract"
  /\ \E j \in 0..MaxItems :
       /\ names' = Rendered(START_URLS[url_idx], j)
       /\ clean_names' = CleanNames(names')
       /\ all_rows' = IF loopState = "CAP_EXIT" THEN all_rows
                      ELSE Extend(all_rows, RunRows(START_URLS[url_idx], names'))
       /\ extracted' = [extracted EXCEPT ![url_idx] = names']
  /\ pc' = "close"
  /\ UNCHANGED << url_idx, pages, first_batch, csv, csv_writes, sheet, pushes >>
  /\ UNCHANGED loopVars

\* names = await page.locator(FULL_SELECTOR).all_inner_texts() ... extend
Extract ==
  /\ pc = "extract"
  /\ \E j \in 0..MaxItems :
       /\ names' = Rendered(START_URLS[url_idx], j)
       /\ clean_names' = CleanNames(names')
       /\ all_rows' = Extend(all_rows, RunRows(START_URLS[url_idx], names'))
       /\ extracted' = [extracted EXCEPT ![url_idx] = names']
  /\ pc' = "close"
  /\ UNCHANGED << url_idx, pages, first_batch, csv, csv_writes, sheet, pushes >>
  /\ UNCHANGED loopVars

\* variant: the page is not closed before the next URL
ClosePage_Leak ==
  /\ pc = "close"
  /\ pages' = pages
  /\ IF url_idx < NTargets
       THEN url_idx' = url_idx + 1 /\ pc' = "new_page"
       ELSE url_idx' = url_idx /\ pc' = "write_csv"
  /\ UNCHANGED << first_batch, names, clean_names, all_rows, csv, csv_writes,
                  sheet, pushes, extracted >>
  /\ UNCHANGED loopVars

\* await page.close(), then the next URL of START_URLS or the end of the for
ClosePage ==
  /\ pc = "close"
  /\ pages' = [pages EXCEPT ![url_idx] = "closed"]
  /\ IF url_idx < NTargets
       THEN url_idx' = url_idx + 1 /\ pc' = "new_page"
       ELSE url_idx' = url_idx /\ pc' = "write_csv"
  /\ UNCHANGED << first_batch, names, clean_names, all_rows, csv, csv_writes,
                  sheet, pushes, extracted >>
  /\ UNCHANGED loopVars

\* variant: only the rows of the last URL are written
WriteCsv_LastRunOnly ==
  /\ pc = "write_csv"
  /\ csv' = RunRows(START_URLS[url_idx], names)
  /\ csv_writes' = csv_writes + 1
  /\ pc' = "push"
  /\ UNCHANGED << url_idx, pages, first_batch, names, clean_names, all_rows,
                  sheet, pushes, extracted >>
  /\ UNCHANGED loopVars

\* csv.writer(f).writerows(all_rows)
WriteCsv ==
  /\ pc = "write_csv"
  /\ csv' = all_rows
  /\ csv_writes' = csv_writes + 1
  /\ pc' = "push"
  /\ UNCHANGED << url_idx, pages, first_batch, names, clean_names, all_rows,
                  sheet, pushes, extracted >>
  /\ UNCHANGED loopVars

\* utils.clean_rows: the rows without repetitions, first occurrences kept
RECURSIVE clean_rows(_)
clean_rows(rows) ==
  IF rows = <<>> THEN <<>>
  ELSE LET init == clean_rows(SubSeq(rows, 1, Len(rows) - 1))
           last == rows[Len(rows)]
       IN  IF \E k \in 1..Len(init) : init[k] = last
             THEN init ELSE Append(init, last)

\* rows_for_sheet = clean_rows(all_rows); await push_to_gsheet(rows_for_sheet)
PushSheet ==
  /\ pc = "push"
  /\ sheet' = clean_rows(all_rows)
  /\ pushes' = pushes + 1
  /\ pc' = "done"
  /\ UNCHANGED << url_idx, pages, first_batch, names, clean_names, all_rows,
                  csv, csv_writes, extracted >>
  /\ UNCHANGED loopVars

Next ==
  \/ NewPage
  \/ Goto
  \/ WaitForSelector
  \/ FirstBatch
  \/ LoadEnter
  \/ Scroll
  \/ Wait
  \/ Settle
  \/ ProgressCheck
  \/ LoadReturn
  \/ Extract
  \/ ClosePage
  \/ WriteCsv
  \/ PushSheet

Spec == Init /\ [][Next]_vars

\* scrape is one coroutine run to completion by asyncio.run: every await
\* (each bounded by its timeout) returns or raises, so a step that is
\* possible is eventually taken
FairSpec == Spec /\ WF_vars(Next)

\* ------------------------------------------------------------- types
TypeOK ==
  /\ pc \in {"new_page", "goto", "wait_selector", "first_batch", "load_enter",
             "scroll", "wait", "settle", "check", "loop_exit", "extract",
             "close", "write_csv", "push", "done", "aborted", "failed"}
  /\ url_idx \in 1..(NTargets + 1)
  /\ first_batch \in {-1} \cup Counts
  /\ seen \in {-1} \cup Counts
  /\ stalled \in 0..STALL_LIMIT
  /\ iteration \in 0..MAX_SCROLLS
  /\ loopState \in {"IDLE", "RUNNING", "STALL_EXIT", "CAP_EXIT"}
  /\ waited \in WaiterOutcomes \cup {"none"}

\* ------------------------------------------------- derived quantities
\* pc is inside load_everything
InLoop == pc \in {"scroll", "wait", "settle", "check", "loop_exit"}

\* progress checks done so far by the running load_everything
Measurements ==
  IF pc \in {"wait", "settle", "check"} THEN iteration - 1 ELSE iteration

\* every measurement of this load_everything returned the same count
ConstantFromStart ==
  InLoop /\ Measurements >= 1 /\ runLen = Measurements

\* ------------------------------------------------------------ claims
\* C1 as stated: with the same count c measured from the first pass on, the
\* loop is in STALL_EXIT after exactly STALL_LIMIT passes (scroll
\* invocations), with seen = c.
C1_StallExitAfterStallLimitPasses ==
  /\ (ConstantFromStart /\ Measurements = STALL_LIMIT)
        => (loopState = "STALL_EXIT" /\ seen = lastMeasured)
  /\ (ConstantFromStart /\ loopState = "STALL_EXIT")
        => scrolls = STALL_LIMIT

\* C1 amended: with the same count c measured from the first pass on, the
\* loop keeps running through the first STALL_LIMIT passes and is in
\* STALL_EXIT after exactly STALL_LIMIT + 1 passes (scroll invocations),
\* with seen = c at exit.
C1_StallExitAfterStallLimitPlusOne ==
  ConstantFromStart =>
    /\ Measurements <= STALL_LIMIT + 1
    /\ seen = lastMeasured
    /\ Measurements <= STALL_LIMIT => loopState = "RUNNING"
    /\ Measurements = STALL_LIMIT + 1 =>
         /\ pc = "loop_exit"
         /\ loopState = "STALL_EXIT"
         /\ iteration = STALL_LIMIT + 1
         /\ scrolls = STALL_LIMIT + 1

C1_Witness ==
  /\ pc = "loop_exit"
  /\ loopState = "STALL_EXIT"
  /\ runLen = iteration
  /\ scrolls = STALL_LIMIT + 1
  /\ seen = MaxCount

C3_CapIsAbsolute ==
  scrolls <= MAX_SCROLLS /\ iteration <= MAX_SCROLLS

C3_Witness ==
  /\ scrolls = MAX_SCROLLS
  /\ loopState = "CAP_EXIT"
  /\ pc = "loop_exit"

\* C4 as stated: the page opened for a URL is closed before the next URL's
\* page is opened and before the run ends, on every exit path (stall exit,
\* cap exit, zero first batch, error raised while the URL is processed).
C4_HandleReleasedOnEveryExit ==
  /\ \A t \in 1..NTargets :
       (t < url_idx /\ pages[url_idx] = "open") => pages[t] = "closed"
  /\ pc \in {"done", "aborted", "failed"}
       => \A t \in 1..NTargets : pages[t] # "open"

\* C5: when the first measurement of ITEM_SELECTOR on a page is 0 the run
\* is aborted there: no scroll was issued on that page, load_everything was
\* not entered for it, no later URL has a page or rows.
C5_ZeroInitialItemsAborts ==
  first_batch = 0 =>
    /\ pc = "aborted"
    /\ scrolls = 0
    /\ pages[url_idx] = "open"
    /\ extracted[url_idx] = <<>>
    /\ \A t \in 1..NTargets : t > url_idx =>
         pages[t] = "none" /\ extracted[t] = <<>>
    /\ \A k \in 1..Len(all_rows) :
         \E t \in 1..NTargets : t < url_idx /\ all_rows[k][1] = START_URLS[t]
    /\ url_idx = 1 => loopState = "IDLE"

C5_Witness ==
  /\ pc = "aborted"
  /\ first_batch = 0
  /\ url_idx < NTargets
  /\ pages[url_idx + 1] = "none"

\* the name the claim describes: split on newlines, first segment, trimmed
NormalizedName(s) == Strip(SplitFirst(s))

\* all texts extracted so far, in URL order
RECURSIVE TextsUpTo(_)
TextsUpTo(t) == IF t = 0 THEN <<>> ELSE TextsUpTo(t - 1) \o extracted[t]

\* C6 as stated: every row of all_rows carries the normalized name of the
\* text it was extracted from, one row per text.
C6_RowsCarryNormalizedNames ==
  /\ Len(all_rows) = Len(TextsUpTo(NTargets))
  /\ \A k \in 1..Len(all_rows) :
       all_rows[k][2] = NormalizedName(TextsUpTo(NTargets)[k])

\* the rows of the URLs 1..t as the claim lists them: URL by URL, each
\* URL's texts in the order extraction returned them
RECURSIVE RowsInWorklistOrder(_)
RowsInWorklistOrder(t) ==
  IF t = 0 THEN <<>>
  ELSE RowsInWorklistOrder(t - 1)
         \o [k \in 1..Len(extracted[t]) |-> << START_URLS[t], extracted[t][k], TODAY >>]

\* C7: at every point of the run all_rows is the concatenation, in
\* START_URLS order, of the rows of the URLs extracted so far, each in the
\* order extraction returned its texts.
C7_RowOrdering ==
  all_rows = RowsInWorklistOrder(NTargets)

C7_Witness ==
  /\ NTargets >= 2
  /\ Len(extracted[1]) = 3
  /\ Len(extracted[2]) = 2
  /\ Len(all_rows) = 5
  /\ all_rows[4][1] = START_URLS[2]

\* C8: whatever the spinner does in a pass (never attaches, attaches and
\* detaches, attaches and stays), the pass goes on to the settle delay and
\* the progress check; load_everything never ends in a raised failure.
C8_NonFatalTimeout ==
  /\ waited \in WaiterOutcomes => pc \in {"settle", "check"}
  /\ pc = "failed" => loopState # "RUNNING"

C8_Witness ==
  /\ pc = "check"
  /\ waited = "never_attached"
  /\ loopState = "RUNNING"

\* a step of scrape after load_everything returned: extraction, rows
\* appended, page closed, next URL or CSV write
ContinuesAfterLoop ==
  /\ pc = "loop_exit" => pc' = "extract"
  /\ pc = "extract" =>
       /\ pc' = "close"
       /\ Len(all_rows') = Len(all_rows) + Len(names')
       /\ SubSeq(all_rows', 1, Len(all_rows)) = all_rows
       /\ \A k \in 1..Len(names') :
            all_rows'[Len(all_rows) + k]
              = << START_URLS[url_idx], names'[k], TODAY >>
  /\ pc = "close" =>
       /\ pages'[url_idx] = "closed"
       /\ pc' = IF url_idx < NTargets THEN "new_page" ELSE "write_csv"

\* C9: a cap exit (range exhausted with stalled below STALL_LIMIT) raises
\* nothing: load_everything returns, the texts are extracted and their rows
\* appended, the page is closed and the run goes on to the next URL or to
\* the CSV write, as it does after a stall exit.
C9_CapExitIsDegradedSuccess ==
  /\ [](pc = "loop_exit" /\ loopState = "CAP_EXIT"
          => iteration = MAX_SCROLLS /\ stalled < STALL_LIMIT)
  /\ [][loopState = "CAP_EXIT" => ContinuesAfterLoop]_vars
  /\ [][loopState = "STALL_EXIT" => ContinuesAfterLoop]_vars

C9_Witness ==
  /\ loopState = "CAP_EXIT"
  /\ pc = "new_page"
  /\ url_idx = 2
  /\ Len(all_rows) = MaxItems

\* C10: a progress check that changes seen leaves stalled at 0, and while
\* the loop runs iteration goes up by exactly one per pass (at the scroll
\* that starts the pass) and never otherwise.
C10_ScrollStateInvariant ==
  /\ [][pc = "check" /\ seen' # seen => stalled' = 0]_vars
  /\ [][pc = "scroll" => iteration' = iteration + 1]_vars
  /\ [][(pc \in {"wait", "settle", "check"}) => (iteration' = iteration)]_vars

C10_Witness ==
  /\ pc = "scroll"
  /\ iteration >= 3
  /\ runLen = 1
  /\ stalled = 0
  /\ seen = lastMeasured

\* C11: at most one page is open at any time, the open page is that of the
\* URL being processed and every earlier URL's page has been closed; the
\* scroll loop only runs on that one open page.
C11_StrictlySequentialTargets ==
  /\ Cardinality({t \in 1..NTargets : pages[t] = "open"}) <= 1
  /\ \A t \in 1..NTargets :
       pages[t] = "open" =>
         /\ t = url_idx
         /\ \A u \in 1..(t - 1) : pages[u] = "closed"
  /\ InLoop => pages[url_idx] = "open"

C11_Witness ==
  /\ NTargets >= 2
  /\ pages[1] = "closed"
  /\ pages[2] = "open"
  /\ pc = "check"

\* C12: the CSV is written at most once, and once in a run that completes;
\* it is written only after every URL's page was processed and closed, with
\* exactly the rows of all_rows; push_to_gsheet is called only after the CSV
\* write, at most once, with rows derived from the same all_rows.
C12_PersistenceOrdering ==
  /\ csv_writes <= 1 /\ pushes <= 1 /\ pushes <= csv_writes
  /\ csv_writes = 0 => csv = <<>>
  /\ csv_writes = 1 =>
       /\ \A t \in 1..NTargets : pages[t] = "closed"
       /\ csv = all_rows
       /\ csv = RowsInWorklistOrder(NTargets)
  /\ pushes = 0 => sheet = <<>>
  /\ pushes = 1 =>
       /\ sheet = clean_rows(csv)
       /\ \A k \in 1..Len(sheet) : \E i \in 1..Len(csv) : sheet[k] = csv[i]
  /\ pc = "push" => csv_writes = 1 /\ pushes = 0
  /\ pc = "done" => csv_writes = 1 /\ pushes = 1

C12_Witness ==
  /\ pc = "done"
  /\ csv_writes = 1
  /\ pushes = 1
  /\ Len(csv) = 2 * MaxItems
  /\ Len(sheet) = Len(csv)

\* C13 as stated: within one page's loop the values seen takes after the
\* first measurement never decrease.
C13_MonotonicCount ==
  [][(pc = "check" /\ seen # -1) => (seen' >= seen)]_vars

\* a progress check leaves seen at the count it measured, so seen goes down
\* only when the measured count is below the measurement before it
SeenFollowsMeasurement ==
  pc = "check" =>
    /\ seen' = lastMeasured'
    /\ seen' >= 0
    /\ lastMeasured' >= lastMeasured => seen' >= seen

\* C13 amended: after every progress check seen equals the count just
\* measured; it does not decrease at a check whose count is not below the
\* previous measurement, and takes the smaller value when the page reports
\* fewer items (the loop does not enforce growth).
C13_SeenFollowsMeasuredCount ==
  [][SeenFollowsMeasurement]_vars

C13_Witness ==
  /\ pc = "scroll"
  /\ Measurements >= 2
  /\ runLen = 1
  /\ lastMeasured = 0
  /\ seen = 0

\* one step of a pass of the loop, in the order of the code
StepOrder ==
  /\ pc = "scroll" => pc' = "wait" /\ scrolls' = scrolls + 1
  /\ pc = "wait" => pc' = "settle" /\ scrolls' = scrolls
  /\ pc = "settle" =>
       pc' = "check" /\ scrolls' = scrolls /\ waited' = waited
         /\ seen' = seen /\ stalled' = stalled
  /\ pc = "check" => (pc' \in {"scroll", "loop_exit"}) /\ scrolls' = scrolls
  /\ pc' = "wait" => pc = "scroll"
  /\ pc' = "settle" => pc = "wait"
  /\ pc' = "check" => pc = "settle"
  /\ lastMeasured' # lastMeasured =>
       (pc \in {"check", "loop_exit", "load_enter"})

\* C14: every pass does the scroll, the spinner wait, the settle delay and
\* the count, once each and in this order; the settle delay follows the
\* wait whatever the spinner did, and the count is only taken after it.
C14_StepOrder ==
  /\ [](InLoop => scrolls = iteration)
  /\ [](pc \in {"settle", "check"} => waited \in WaiterOutcomes)
  /\ [][StepOrder]_vars

C14_Witness ==
  /\ pc = "check"
  /\ waited = "attached_stuck"
  /\ iteration >= 2
  /\ scrolls = iteration

\* C15 as stated: when no element matching ITEM_SELECTOR exists at the time
\* of the scroll trigger the trigger scrolls nothing (and does not fail),
\* and whatever it scrolls was found by walking up from the first element
\* matching ITEM_SELECTOR (the script starts its walk at the first element
\* with the id prefix, so that element has to be an ITEM_SELECTOR row).
C15_ScrollTriggerNoOp ==
  scrollEffect.box # "none" =>
    /\ pc = "wait"
    /\ ~scrollEffect.dom.itemRow => scrollEffect.box = "noop"
    /\ scrollEffect.box # "noop" => scrollEffect.dom.firstIsItem

\* the run has ended: CSV written and rows pushed, sys.exit, or an error
\* raised out of scrape
RunEnded == pc \in {"done", "aborted", "failed"}

\* C16: whatever counts the page reports and whatever the spinner does,
\* the run over START_URLS eventually ends: aborted (sys.exit or a raised
\* error), or done with the CSV written and the rows pushed; on the way
\* every load_everything that was entered has left its loop, which it
\* only does in STALL_EXIT or CAP_EXIT.
C16_Termination ==
  /\ <>RunEnded
  /\ [](RunEnded => ~InLoop)
  /\ [](InLoop =>
          IF pc = "loop_exit" THEN loopState \in {"STALL_EXIT", "CAP_EXIT"}
                              ELSE loopState = "RUNNING")
  /\ [](pc = "done" => csv_writes = 1 /\ pushes = 1)

\* an upper bound on the steps a URL's processing still takes from pc
StepsLeftInTarget ==
  CASE pc = "close"         -> 1
    [] pc = "extract"       -> 2
    [] pc = "loop_exit"     -> 3
    [] pc = "check"         -> 4 + 4 * (MAX_SCROLLS - iteration) + 1
    [] pc = "settle"        -> 4 + 4 * (MAX_SCROLLS - iteration) + 2
    [] pc = "wait"          -> 4 + 4 * (MAX_SCROLLS - iteration) + 3
    [] pc = "scroll"        -> 4 + 4 * (MAX_SCROLLS - iteration)
    [] pc = "load_enter"    -> 4 + 4 * MAX_SCROLLS + 1
    [] pc = "first_batch"   -> 4 + 4 * MAX_SCROLLS + 2
    [] pc = "wait_selector" -> 4 + 4 * MAX_SCROLLS + 3
    [] pc = "goto"          -> 4 + 4 * MAX_SCROLLS + 4
    [] pc = "new_page"      -> 4 + 4 * MAX_SCROLLS + 5
    [] OTHER                -> 0

\* an upper bound on the steps the run still takes
StepsLeft ==
  CASE RunEnded          -> 0
    [] pc = "push"       -> 1
    [] pc = "write_csv"  -> 2
    [] OTHER -> 3 + StepsLeftInTarget
                  + (NTargets - url_idx) * (4 * MAX_SCROLLS + 10)

\* the bound behind C16, a safety property that holds at any bound of the
\* model: every step lowers StepsLeft, which stays >= 0, so no run takes
\* more than NTargets * (4 * MAX_SCROLLS + 10) + 3 steps
C16_StepsLeftDecreases ==
  /\ [](StepsLeft >= 0)
  /\ [][StepsLeft' < StepsLeft]_vars

C16_Witness ==
  /\ pc = "done"
  /\ loopState = "CAP_EXIT"
  /\ csv_writes = 1
  /\ pushes = 1

\* C17: when the zero-first-batch exit fires, also on a URL after the
\* first, nothing is persisted: no CSV write and no push happen in the run,
\* whatever rows all_rows already holds.
C17_AbortPersistsNothing ==
  /\ pc = "aborted" => first_batch = 0
  /\ first_batch = 0 =>
       /\ csv_writes = 0 /\ csv = <<>>
       /\ pushes = 0 /\ sheet = <<>>
       /\ pc \notin {"write_csv", "push", "done"}

C17_Witness ==
  /\ pc = "aborted"
  /\ url_idx = 2
  /\ Len(all_rows) > 0
  /\ csv_writes = 0
  /\ pushes = 0

\* C18: seen is the sentinel -1 until the first progress check, which
\* therefore never counts as a stall (stalled is 0 after it); a stall exit
\* is never reached with fewer than STALL_LIMIT + 1 scrolls.
C18_FirstCheckNeverStalls ==
  InLoop =>
    /\ Measurements = 0 => seen = -1 /\ stalled = 0
    /\ Measurements = 1 => stalled = 0 /\ seen >= 0 /\ loopState = "RUNNING"
    /\ loopState = "STALL_EXIT" =>
         scrolls >= STALL_LIMIT + 1 /\ iteration >= STALL_LIMIT + 1

C18_Witness ==
  /\ pc = "loop_exit"
  /\ loopState = "STALL_EXIT"
  /\ scrolls = STALL_LIMIT + 1
  /\ seen = 0

\* C19: a measurement that differs from the one before, smaller ones
\* included, resets stalled and becomes seen; a stall exit only happens
\* when the last STALL_LIMIT measurements brought no change, so a count
\* that changes within every STALL_LIMIT measurements ends the loop by the
\* cap only, after exactly MAX_SCROLLS scrolls.
C19_AnyChangeIsProgress ==
  InLoop =>
    /\ (Measurements >= 1 /\ runLen = 1) => (stalled = 0 /\ seen = lastMeasured)
    /\ runLen < STALL_LIMIT => loopState # "STALL_EXIT"
    /\ pc = "loop_exit" =>
         \/ loopState = "STALL_EXIT" /\ runLen > STALL_LIMIT
         \/ loopState = "CAP_EXIT" /\ scrolls = MAX_SCROLLS
                                   /\ iteration = MAX_SCROLLS

C19_Witness ==
  /\ pc = "loop_exit"
  /\ loopState = "CAP_EXIT"
  /\ scrolls = MAX_SCROLLS
  /\ runLen = 1
  /\ lastMeasured = 0

\* C20: after every progress check seen is the last measured count and
\* stalled the number of trailing measurements equal to the one before them
\* (-1 standing before the first); stalled stays within 0..STALL_LIMIT and
\* is STALL_LIMIT only in the stall-exit state.
C20_SeenAndStalledTrackMeasurements ==
  /\ stalled >= 0 /\ stalled <= STALL_LIMIT
  /\ stalled = STALL_LIMIT => pc = "loop_exit" /\ loopState = "STALL_EXIT"
  /\ InLoop =>
       IF Measurements = 0
         THEN seen = -1 /\ stalled = 0
         ELSE seen = lastMeasured /\ stalled = runLen - 1

C20_Witness ==
  /\ pc = "loop_exit"
  /\ stalled = STALL_LIMIT
  /\ iteration = MAX_SCROLLS
  /\ seen = 0

====
